---- MODULE Spec2Model ----
(***************************************************************************)
(* Model of openvpn_stats.py: one poll of the OpenVPN management           *)
(* interface, the snapshot store in data_dir, retention pruning, and the   *)
(* aggregation of the retained history into rolling-window totals and a    *)
(* bucketed rate series.                                                   *)
(*                                                                         *)
(* Time.  get_local_time() is a wall clock in the fixed offset UTC+3.  An  *)
(* instant is the number of seconds since local midnight of day 0; a date  *)
(* is a day number.  timedelta arithmetic is integer arithmetic on seconds.*)
(*                                                                         *)
(* Rates.  Python floats are modelled by exact rationals num/den; round(x, *)
(* 2) yields an integer number of hundredths.                              *)
(***************************************************************************)
EXTENDS Integers, Sequences, FiniteSets, TLC

VARIABLES
    now,              \* value returned by get_local_time()
    store,            \* data_dir: file stem -> file content
    report,           \* content of CONFIG['output_html']
    pc,               \* position of the running specification
    raw_data,         \* main: result of get_openvpn_status()
    current_clients,  \* main: result of parse_status(raw_data)
    history,          \* main: result of load_all_history()
    stats,            \* main: result of calculate_stats(history)
    write_ok,         \* whether open(filename, 'w') of this run succeeded
    ticks,            \* number of clock advances so far (bounds the clock)
    aggregation_interval, \* CONFIG['aggregation_interval']
    dt,               \* round_time_to_interval: argument dt
    rounded_time,     \* round_time_to_interval: returned instant
    run_start,        \* store and report as they were when main was entered
    loads             \* the last calls of load_all_history (at most two) with no
                      \* file written between them: time, store before and after, result

vars == <<now, store, report, pc, raw_data, current_clients, history, stats,
          write_ok, ticks, aggregation_interval, dt, rounded_time,
          run_start, loads>>

----------------------------------------------------------------------------
(* Program constants *)

months_to_keep == 1

total_bandwidth == 150

raw_interval_seconds == 300

INTERVAL_SECONDS ==
    [i \in {"10m", "30m", "1h"} |->
        IF i = "10m" THEN 600 ELSE IF i = "30m" THEN 1800 ELSE 3600]

SecPerDay == 24 * 60 * 60

EmptyMap == [x \in {} |-> 0]

----------------------------------------------------------------------------
(* File stems and the two strptime conversions.                            *)
(* A stem is modelled by the fields strptime would read from it: ymd is    *)
(* the day number its date segment denotes, or BadDate when the segment    *)
(* before the first '_' is not a '%Y-%m-%d' date; hh and mm are the two    *)
(* numbers of the time segment, which strptime accepts only in range.      *)

BadDate == 0 - 1

\* now.strftime('%Y-%m-%d_%H-%M'): seconds are dropped
StemOf(t) ==
    [ymd |-> t \div SecPerDay,
     hh  |-> (t % SecPerDay) \div 3600,
     mm  |-> (t % 3600) \div 60]

\* datetime.strptime(file.stem.split('_')[0], '%Y-%m-%d') succeeds
DateParses(stem) == stem.ymd # BadDate

\* the parsed date, at midnight UTC+3
file_date(stem) == stem.ymd * SecPerDay

\* datetime.strptime(filename, '%Y-%m-%d_%H-%M') succeeds
KeyParses(stem) == stem.ymd # BadDate /\ stem.hh \in 0..23 /\ stem.mm \in 0..59

\* the parsed instant
file_dt(stem) == stem.ymd * SecPerDay + stem.hh * 3600 + stem.mm * 60

----------------------------------------------------------------------------
(* round_time_to_interval *)

\* dt.replace(hour=0, minute=0, second=0, microsecond=0)
day_start(t) == t - (t % SecPerDay)

\* rounding to the nearest multiple instead of flooring
round_time_nearest(t, interval_seconds) ==
    LET seconds_since_day_start == (t - day_start(t)) % SecPerDay
        rounded_seconds ==
            ((seconds_since_day_start + interval_seconds \div 2) \div interval_seconds)
                * interval_seconds
    IN  day_start(t) + rounded_seconds

round_time_to_interval(t, interval_seconds) ==
    LET seconds_since_day_start == (t - day_start(t)) % SecPerDay
        rounded_seconds == (seconds_since_day_start \div interval_seconds) * interval_seconds
    IN  day_start(t) + rounded_seconds

\* bucket_time.strftime('%Y-%m-%d %H:%M')
bucket_key(t) ==
    [ymd |-> t \div SecPerDay,
     hh  |-> (t % SecPerDay) \div 3600,
     mm  |-> (t % 3600) \div 60]

----------------------------------------------------------------------------
(* calculate_stats *)

\* data.get(field, 1): a wrong default
get_default1(data, field) == IF field \in DOMAIN data THEN data[field] ELSE 1

\* data.get(field, 0)
get(data, field) == IF field \in DOMAIN data THEN data[field] ELSE 0

\* user_stats[user]['downloaded'] += downloaded; ... on a defaultdict
add_user_stats(user_stats, user, downloaded, uploaded) ==
    LET cur == IF user \in DOMAIN user_stats THEN user_stats[user]
               ELSE [downloaded |-> 0, uploaded |-> 0]
    IN  [u \in DOMAIN user_stats \cup {user} |->
            IF u = user
            THEN [downloaded |-> cur.downloaded + downloaded,
                  uploaded   |-> cur.uploaded + uploaded]
            ELSE user_stats[u]]

\* process_record with the 24h test written "file_dt > cutoff_24h"
process_record_strict(acc, user, data, t, cutoffs) ==
    LET downloaded == get(data, "bytes_received")
        uploaded   == get(data, "bytes_sent")
    IN  [acc EXCEPT
            !.all_users = @ \cup {user},
            !.total_downloaded = @ + downloaded,
            !.total_uploaded = @ + uploaded,
            !.user_stats_24h =
                IF t > cutoffs.cutoff_24h THEN add_user_stats(@, user, downloaded, uploaded) ELSE @,
            !.user_stats_week =
                IF t >= cutoffs.cutoff_week THEN add_user_stats(@, user, downloaded, uploaded) ELSE @,
            !.user_stats_month =
                IF t >= cutoffs.cutoff_month THEN add_user_stats(@, user, downloaded, uploaded) ELSE @]

\* body of "for user, data in day_data.items()"
process_record(acc, user, data, t, cutoffs) ==
    LET downloaded == get(data, "bytes_received")
        uploaded   == get(data, "bytes_sent")
    IN  [acc EXCEPT
            !.all_users = @ \cup {user},
            !.total_downloaded = @ + downloaded,
            !.total_uploaded = @ + uploaded,
            !.user_stats_24h =
                IF t >= cutoffs.cutoff_24h THEN add_user_stats(@, user, downloaded, uploaded) ELSE @,
            !.user_stats_week =
                IF t >= cutoffs.cutoff_week THEN add_user_stats(@, user, downloaded, uploaded) ELSE @,
            !.user_stats_month =
                IF t >= cutoffs.cutoff_month THEN add_user_stats(@, user, downloaded, uploaded) ELSE @]

RECURSIVE process_records(_, _, _, _, _)
process_records(acc, day_data, todo, t, cutoffs) ==
    IF todo = {} THEN acc
    ELSE LET user == CHOOSE u \in todo : TRUE
         IN  process_records(process_record(acc, user, day_data[user], t, cutoffs),
                             day_data, todo \ {user}, t, cutoffs)

\* aggregate[bucket_key]['downloaded'].append(...); same for 'uploaded'.
\* A sample is the numerator total * 8 of the rate; its denominator is
\* RateDen for every sample.
append_sample(aggregate, bucket, downloaded_num, uploaded_num) ==
    LET cur == IF bucket \in DOMAIN aggregate THEN aggregate[bucket]
               ELSE [downloaded |-> << >>, uploaded |-> << >>]
    IN  [b \in DOMAIN aggregate \cup {bucket} |->
            IF b = bucket
            THEN [downloaded |-> Append(cur.downloaded, downloaded_num),
                  uploaded   |-> Append(cur.uploaded, uploaded_num)]
            ELSE aggregate[b]]

RateDen == raw_interval_seconds * 1000 * 1000

\* process_snapshot that skips a snapshot only when its date is unreadable
process_snapshot_dateonly(acc, filename, day_data, interval_seconds, cutoffs) ==
    IF ~DateParses(filename) THEN acc
    ELSE LET t      == file_dt(filename)
             bucket == bucket_key(round_time_to_interval(t, interval_seconds))
             a0     == [acc EXCEPT !.total_downloaded = 0, !.total_uploaded = 0]
             a1     == process_records(a0, day_data, DOMAIN day_data, t, cutoffs)
         IN  [a1 EXCEPT !.aggregate =
                 append_sample(@, bucket, a1.total_downloaded * 8, a1.total_uploaded * 8)]

\* body of "for filename, day_data in history.items()"
process_snapshot(acc, filename, day_data, interval_seconds, cutoffs) ==
    IF ~KeyParses(filename) THEN acc
    ELSE LET t      == file_dt(filename)
             bucket == bucket_key(round_time_to_interval(t, interval_seconds))
             a0     == [acc EXCEPT !.total_downloaded = 0, !.total_uploaded = 0]
             a1     == process_records(a0, day_data, DOMAIN day_data, t, cutoffs)
         IN  [a1 EXCEPT !.aggregate =
                 append_sample(@, bucket, a1.total_downloaded * 8, a1.total_uploaded * 8)]

RECURSIVE process_history(_, _, _, _, _)
process_history(acc, hist, todo, interval_seconds, cutoffs) ==
    IF todo = {} THEN acc
    ELSE LET filename == CHOOSE f \in todo : TRUE
         IN  process_history(
                 process_snapshot(acc, filename, hist[filename], interval_seconds, cutoffs),
                 hist, todo \ {filename}, interval_seconds, cutoffs)

RECURSIVE SumSeq(_)
SumSeq(s) == IF s = << >> THEN 0 ELSE Head(s) + SumSeq(Tail(s))

\* round-half-to-even of the rational num / den, den > 0, num >= 0
RoundHalfEven(num, den) ==
    LET q == num \div den
        r == num % den
    IN  IF 2 * r < den THEN q
        ELSE IF 2 * r > den THEN q + 1
        ELSE IF q % 2 = 0 THEN q ELSE q + 1

\* round(num / den, 2), as a number of hundredths; den is a multiple of 100
round2(num, den) == RoundHalfEven(num, den \div 100)

\* average without the division by len(values)
average_sum(values) == [num |-> SumSeq(values), den |-> RateDen]

\* sum(values) / len(values), as the rational [num, den] over RateDen
average(values) == [num |-> SumSeq(values), den |-> Len(values) * RateDen]

\* one element of interval_stats
interval_entry(bucket, values) ==
    LET avg_downloaded == average(values.downloaded)
        avg_uploaded   == average(values.uploaded)
    IN  IF values.downloaded # << >>
        THEN [time       |-> bucket,
              downloaded |-> round2(avg_downloaded.num, avg_downloaded.den),
              uploaded   |-> round2(avg_uploaded.num, avg_uploaded.den),
              total      |-> round2(avg_downloaded.num + avg_uploaded.num,
                                    avg_downloaded.den)]
        ELSE [time |-> bucket, downloaded |-> 0, uploaded |-> 0, total |-> 0]

\* the instant a bucket key denotes; 'YYYY-MM-DD HH:MM' strings sort by it
bucket_order(b) == b.ymd * SecPerDay + b.hh * 3600 + b.mm * 60

\* for bucket, values in sorted(aggregate.items()): interval_stats.append(...)
RECURSIVE sorted_entries(_, _)
sorted_entries(aggregate, todo) ==
    IF todo = {} THEN << >>
    ELSE LET first == CHOOSE b \in todo :
                          \A c \in todo : bucket_order(b) <= bucket_order(c)
         IN  <<interval_entry(first, aggregate[first])>>
                 \o sorted_entries(aggregate, todo \ {first})

RECURSIVE SumOver(_, _, _)
SumOver(stats_dict, todo, field) ==
    IF todo = {} THEN 0
    ELSE LET u == CHOOSE x \in todo : TRUE
         IN  stats_dict[u][field] + SumOver(stats_dict, todo \ {u}, field)

calculate_totals(stats_dict) ==
    LET total_downloaded == SumOver(stats_dict, DOMAIN stats_dict, "downloaded")
        total_uploaded   == SumOver(stats_dict, DOMAIN stats_dict, "uploaded")
    IN  [downloaded |-> total_downloaded,
         uploaded   |-> total_uploaded,
         total      |-> total_downloaded + total_uploaded]

\* aggregation_pass with the week cutoff written timedelta(hours=7)
aggregation_pass_week_hours(hist, interval_key, t_now) ==
    LET interval_seconds == INTERVAL_SECONDS[interval_key]
        cutoffs == [cutoff_24h   |-> t_now - 24 * 3600,
                    cutoff_week  |-> t_now - 7 * 3600,
                    cutoff_month |-> t_now - 30 * SecPerDay]
        acc0 == [all_users |-> {},
                 user_stats_24h |-> EmptyMap,
                 user_stats_week |-> EmptyMap,
                 user_stats_month |-> EmptyMap,
                 aggregate |-> EmptyMap,
                 total_downloaded |-> 0,
                 total_uploaded |-> 0]
    IN  process_history(acc0, hist, DOMAIN hist, interval_seconds, cutoffs)

\* the loop of calculate_stats over history.items(): the accumulators after it
aggregation_pass(hist, interval_key, t_now) ==
    LET interval_seconds == INTERVAL_SECONDS[interval_key]
        cutoffs == [cutoff_24h   |-> t_now - 24 * 3600,
                    cutoff_week  |-> t_now - 7 * SecPerDay,
                    cutoff_month |-> t_now - 30 * SecPerDay]
        acc0 == [all_users |-> {},
                 user_stats_24h |-> EmptyMap,
                 user_stats_week |-> EmptyMap,
                 user_stats_month |-> EmptyMap,
                 aggregate |-> EmptyMap,
                 total_downloaded |-> 0,
                 total_uploaded |-> 0]
    IN  process_history(acc0, hist, DOMAIN hist, interval_seconds, cutoffs)

calculate_stats(hist, interval_key, t_now) ==
    LET acc == aggregation_pass(hist, interval_key, t_now)
    IN  [all_users        |-> acc.all_users,
         user_stats_24h   |-> acc.user_stats_24h,
         user_stats_week  |-> acc.user_stats_week,
         user_stats_month |-> acc.user_stats_month,
         hourly_stats     |-> sorted_entries(acc.aggregate, DOMAIN acc.aggregate),
         max_bandwidth    |-> total_bandwidth,
         report_date      |-> StemOf(t_now),
         totals           |-> [h24   |-> calculate_totals(acc.user_stats_24h),
                               week  |-> calculate_totals(acc.user_stats_week),
                               month |-> calculate_totals(acc.user_stats_month)]]

----------------------------------------------------------------------------
(* parse_status *)
(* A raw status text is None or a sequence of lines (raw_data.split('\n')); *)
(* a line is the sequence of its comma-separated parts (line.split(',')).  *)
(* Python index i is index i + 1 here.                                     *)

NoData == [is_none |-> TRUE, lines |-> << >>]

Text(lines) == [is_none |-> FALSE, lines |-> lines]

\* "not raw_data": None or the empty string
is_falsy(raw) == raw.is_none \/ raw.lines = << >>

\* line.startswith('CLIENT_LIST'), decided by the first part of the line
startswith_CLIENT_LIST(parts) == parts[1] \in {"CLIENT_LIST", "CLIENT_LIST_EXTRA"}

\* the decimal strings of the model and the value int() gives them
IntValue ==
    [tok \in {"0", "1000000", "4500000", "7500000"} |->
        IF tok = "0" THEN 0
        ELSE IF tok = "1000000" THEN 1000000
        ELSE IF tok = "4500000" THEN 4500000
        ELSE 7500000]

\* parts[i] raises IndexError
IndexError(parts, i) == i + 1 > Len(parts)

\* int(parts[i]) raises ValueError
ValueError(parts, i) == parts[i + 1] \notin DOMAIN IntValue

\* evaluating the dict display and the subscript parts[1] raises
line_raises(parts) ==
    \/ IndexError(parts, 2)
    \/ IndexError(parts, 5) \/ ValueError(parts, 5)
    \/ IndexError(parts, 6) \/ ValueError(parts, 6)
    \/ IndexError(parts, 7)
    \/ IndexError(parts, 1)

client_record(parts, t_now) ==
    [real_address    |-> parts[3],
     bytes_received  |-> IntValue[parts[6]],
     bytes_sent      |-> IntValue[parts[7]],
     connected_since |-> parts[8],
     timestamp       |-> t_now]

\* clients[key] = value
dict_set(clients, key, value) ==
    [k \in DOMAIN clients \cup {key} |-> IF k = key THEN value ELSE clients[k]]

\* body of "for line in raw_data.split('\n')"
parse_line(clients, parts, t_now) ==
    IF ~startswith_CLIENT_LIST(parts) THEN clients
    ELSE IF line_raises(parts) THEN clients
    ELSE dict_set(clients, parts[2], client_record(parts, t_now))

\* one try block around the whole loop: the first raising line ends it
RECURSIVE parse_lines_abort(_, _, _)
parse_lines_abort(clients, lines, t_now) ==
    IF lines = << >> THEN clients
    ELSE IF startswith_CLIENT_LIST(Head(lines)) /\ line_raises(Head(lines)) THEN clients
    ELSE parse_lines_abort(parse_line(clients, Head(lines), t_now), Tail(lines), t_now)

RECURSIVE parse_lines(_, _, _)
parse_lines(clients, lines, t_now) ==
    IF lines = << >> THEN clients
    ELSE parse_lines(parse_line(clients, Head(lines), t_now), Tail(lines), t_now)

parse_status(raw, t_now) ==
    IF is_falsy(raw) THEN EmptyMap
    ELSE parse_lines(EmptyMap, raw.lines, t_now)

----------------------------------------------------------------------------
(* The snapshot store: save_current_stats and load_all_history *)
(* A file content is a JSON object (kind "dict", with its mapping), some   *)
(* other JSON value (kind "other") or text json.load rejects ("invalid").  *)

DictFile(data) == [kind |-> "dict", data |-> data]

OtherFile == [kind |-> "other", data |-> EmptyMap]

InvalidFile == [kind |-> "invalid", data |-> EmptyMap]

\* save_current_stats that opens the file for exclusive creation
save_keep_existing(files, clients, t_now, outcome) ==
    LET filename == StemOf(t_now)
    IN  IF outcome = "written" /\ filename \notin DOMAIN files
        THEN dict_set(files, filename, DictFile(clients))
        ELSE files

\* the store after save_current_stats(current_clients) at t_now;
\* outcome "written": open and json.dump succeed; "failed": open raises and
\* the except clause reports it
save_current_stats(files, clients, t_now, outcome) ==
    LET filename == StemOf(t_now)
    IN  IF outcome = "written" THEN dict_set(files, filename, DictFile(clients))
        ELSE files

\* file.unlink()
unlink(files, file) == [f \in DOMAIN files \ {file} |-> files[f]]

cutoff_date(t_now) == t_now - 30 * months_to_keep * SecPerDay

\* load_file with the expiry test written "file_date <= cutoff_date"
load_file_inclusive(acc, file, cutoff) ==
    IF ~DateParses(file) THEN acc
    ELSE IF file_date(file) <= cutoff THEN [acc EXCEPT !.files = unlink(@, file)]
    ELSE IF acc.files[file].kind = "invalid" THEN acc
    ELSE IF acc.files[file].kind = "dict"
         THEN [acc EXCEPT !.history = dict_set(@, file, acc.files[file].data)]
         ELSE acc

\* load_file with the expiry test on the full timestamp of the stem
load_file_timestamp(acc, file, cutoff) ==
    IF ~DateParses(file) THEN acc
    ELSE IF file_dt(file) < cutoff THEN [acc EXCEPT !.files = unlink(@, file)]
    ELSE IF acc.files[file].kind = "invalid" THEN acc
    ELSE IF acc.files[file].kind = "dict"
         THEN [acc EXCEPT !.history = dict_set(@, file, acc.files[file].data)]
         ELSE acc

\* body of "for file in Path(data_dir).glob('*.json')";
\* acc = [history, files]
load_file(acc, file, cutoff) ==
    IF ~DateParses(file) THEN acc
    ELSE IF file_date(file) < cutoff THEN [acc EXCEPT !.files = unlink(@, file)]
    ELSE IF acc.files[file].kind = "invalid" THEN acc
    ELSE IF acc.files[file].kind = "dict"
         THEN [acc EXCEPT !.history = dict_set(@, file, acc.files[file].data)]
         ELSE acc

RECURSIVE load_files(_, _, _)
load_files(acc, todo, cutoff) ==
    IF todo = {} THEN acc
    ELSE LET file == CHOOSE f \in todo : TRUE
         IN  load_files(load_file(acc, file, cutoff), todo \ {file}, cutoff)

\* returns [history, files]: the returned mapping and the store afterwards
load_all_history(files, t_now) ==
    load_files([history |-> EmptyMap, files |-> files], DOMAIN files, cutoff_date(t_now))

\* generate_html_report(stats): the document shows the finalized stats object
generate_html_report(st) == <<st>>

----------------------------------------------------------------------------
(* Bounded inputs *)

MaxTicks == 2

MaxLines == 3

MaxSnapshots == 3

MaxDtSpan == 10860

TickSteps == {300, SecPerDay}

At(day, hh, mm) == day * SecPerDay + hh * 3600 + mm * 60

Stem(day, hh, mm) == [ymd |-> day, hh |-> hh, mm |-> mm]

\* a complete record, as parse_status builds it
Rec(received, sent) ==
    [real_address    |-> "1.2.3.4:5",
     bytes_received  |-> received,
     bytes_sent      |-> sent,
     connected_since |-> "t1",
     timestamp       |-> 0]

\* a record that lacks 'bytes_received'
RecNoReceived(sent) ==
    [real_address |-> "1.2.3.4:5", bytes_sent |-> sent,
     connected_since |-> "t1", timestamp |-> 0]

Two(a, b) == [u \in {"alice", "bob"} |-> IF u = "alice" THEN a ELSE b]

One(u, r) == [x \in {u} |-> r]

\* status lines
LineAlice1 == <<"CLIENT_LIST", "alice", "1.2.3.4:5", "10.8.0.2", "", "4500000", "1000000", "t1">>
LineAlice2 == <<"CLIENT_LIST", "alice", "6.7.8.9:5", "10.8.0.2", "", "7500000", "4500000", "t2", "extra">>
LineBob    == <<"CLIENT_LIST_EXTRA", "bob", "1.2.3.9:5", "10.8.0.3", "", "1000000", "0", "t3">>
LineShort  == <<"CLIENT_LIST", "alice", "1.2.3.4:5">>
LineSeven  == <<"CLIENT_LIST", "bob", "1.2.3.9:5", "10.8.0.3", "", "1000000", "0">>
LineBadInt == <<"CLIENT_LIST", "alice", "1.2.3.4:5", "10.8.0.2", "", "x", "1000000", "t1">>
LineBadInt2 == <<"CLIENT_LIST", "bob", "1.2.3.9:5", "10.8.0.3", "", "1000000", "", "t3">>
LineOther  == <<"ROUTING_TABLE", "bob", "1.2.3.9:5", "10.8.0.3", "", "1000000", "0", "t3">>
LineTag    == <<"CLIENT_LIST">>
LineEnd    == <<"END">>

Lines == {LineAlice1, LineAlice2, LineBob, LineShort, LineSeven, LineBadInt,
          LineBadInt2, LineOther, LineTag, LineEnd}

RECURSIVE SeqsUpTo(_, _)
SeqsUpTo(S, n) ==
    IF n = 0 THEN {<< >>}
    ELSE LET shorter == SeqsUpTo(S, n - 1)
         IN  shorter \cup {Append(q, x) : q \in shorter, x \in S}

\* what get_openvpn_status may return in a run of main
RawInputs ==
    {NoData, Text(<< >>), Text(<<LineEnd>>), Text(<<LineAlice1, LineBob, LineEnd>>),
     Text(<<LineAlice2, LineBadInt2>>)}


\* the clock when the first run of main starts: day 31, 23:50
Now0 == At(31, 23, 50)


\* files the data directory may hold before the first run
SeedStore ==
    LET old     == Stem(1, 23, 52)
        edge    == Stem(2, 10, 0)
        recent  == Stem(31, 23, 45)
        badtime == Stem(31, 99, 99)
        other   == Stem(31, 23, 40)
        baddate == Stem(BadDate, 12, 0)
        oldinvalid == Stem(1, 13, 0)
        invalid == Stem(31, 23, 35)
    IN  [f \in {old, edge, recent, badtime, other, baddate, oldinvalid, invalid} |->
            IF f = old THEN DictFile(One("alice", Rec(4500000, 1000000)))
            ELSE IF f = edge THEN DictFile(Two(Rec(1000000, 0), Rec(7500000, 4500000)))
            ELSE IF f = recent THEN DictFile(One("bob", Rec(4500000, 4500000)))
            ELSE IF f = badtime THEN DictFile(One("alice", Rec(1000000, 1000000)))
            ELSE IF f = baddate THEN DictFile(One("alice", Rec(7500000, 0)))
            ELSE IF f = oldinvalid THEN InvalidFile
            ELSE IF f = invalid THEN InvalidFile
            ELSE OtherFile]

Restrict(f, S) == [x \in S |-> f[x]]

\* the stores the first run may find: all seed files, or none
SeedChoices == {DOMAIN SeedStore, {}}

\* the clock of the calculate_stats specification: day 40, 12:07
NowStats == At(40, 12, 7)

StatsStems ==
    {Stem(40, 11, 20), Stem(40, 11, 40), Stem(40, 11, 55), Stem(40, 12, 5),
     Stem(39, 12, 7), Stem(39, 12, 6), Stem(33, 12, 6),
     Stem(10, 12, 7), Stem(10, 12, 6),
     Stem(40, 99, 99), Stem(BadDate, 12, 5)}

StatsContents ==
    {Two(Rec(4500000, 1000000), Rec(7500000, 0)),
     One("alice", Rec(1000000, 4500000)),
     Two(Rec(4500000, 4500000), RecNoReceived(7500000)),
     One("bob", Rec(0 - 1000000, 0)),
     EmptyMap}

Histories ==
    UNION {[S -> StatsContents] : S \in {T \in SUBSET StatsStems : Cardinality(T) <= MaxSnapshots}}

\* instants given to round_time_to_interval: from day 0, 22:00 on
DtLow == At(0, 22, 0)

----------------------------------------------------------------------------
(* The program: main, one step per call it makes *)

NoStats == << >>

Idle ==
    /\ raw_data = NoData
    /\ current_clients = EmptyMap
    /\ history = EmptyMap
    /\ stats = NoStats
    /\ write_ok = "not_called"

NotRounding == dt = 0 /\ rounded_time = 0

Init ==
    /\ now = Now0
    /\ ticks = 0
    /\ store \in {Restrict(SeedStore, S) : S \in SeedChoices}
    /\ report = << >>
    /\ pc = "idle"
    /\ Idle
    /\ aggregation_interval = "1h"
    /\ NotRounding
    /\ run_start = [store |-> store, report |-> report]
    /\ loads = << >>

\* the wall clock advances between two runs (a run is short against the
\* clock steps of the model and reads one time throughout)
Tick ==
    /\ pc = "idle"
    /\ ticks < MaxTicks
    /\ \E d \in TickSteps : now' = now + d
    /\ ticks' = ticks + 1
    /\ UNCHANGED <<store, report, pc, raw_data, current_clients, history, stats,
                   write_ok, aggregation_interval, dt, rounded_time, run_start, loads>>

\* MainFetch with the test "if raw_data is None"
MainFetchNoneOnly ==
    /\ pc = "idle"
    /\ \E raw \in RawInputs :
          /\ raw_data' = raw
          /\ pc' = IF raw.is_none THEN "done" ELSE "fetched"
    /\ run_start' = [store |-> store, report |-> report]
    /\ UNCHANGED <<now, store, report, current_clients, history, stats, write_ok,
                   ticks, aggregation_interval, dt, rounded_time, loads>>

\* init_environment(); raw_data = get_openvpn_status(); if not raw_data: return
MainFetch ==
    /\ pc = "idle"
    /\ \E raw \in RawInputs :
          /\ raw_data' = raw
          /\ pc' = IF is_falsy(raw) THEN "done" ELSE "fetched"
    /\ run_start' = [store |-> store, report |-> report]
    /\ UNCHANGED <<now, store, report, current_clients, history, stats, write_ok,
                   ticks, aggregation_interval, dt, rounded_time, loads>>

\* current_clients = parse_status(raw_data)
MainParse ==
    /\ pc = "fetched"
    /\ current_clients' = parse_status(raw_data, now)
    /\ pc' = "parsed"
    /\ UNCHANGED <<now, store, report, raw_data, history, stats, write_ok, ticks,
                   aggregation_interval, dt, rounded_time, run_start, loads>>

\* if current_clients: save_current_stats(current_clients) else: print(...)
MainSave ==
    /\ pc = "parsed"
    /\ IF current_clients # EmptyMap
       THEN \E outcome \in {"written", "failed"} :
               /\ store' = save_current_stats(store, current_clients, now, outcome)
               /\ write_ok' = outcome
               /\ loads' = IF outcome = "failed" THEN loads ELSE << >>
       ELSE UNCHANGED <<store, write_ok, loads>>
    /\ pc' = "saved"
    /\ UNCHANGED <<now, report, raw_data, current_clients, history, stats, ticks,
                   aggregation_interval, dt, rounded_time, run_start>>

\* the last call of load_all_history, after the one before it if no file
\* was written since
Remember(calls, call) ==
    IF calls = << >> THEN <<call>> ELSE <<calls[Len(calls)], call>>

\* history = load_all_history()
MainLoad ==
    /\ pc = "saved"
    /\ LET r == load_all_history(store, now)
       IN  /\ history' = r.history
           /\ store' = r.files
           /\ loads' = Remember(loads, [t |-> now, before |-> store,
                                        after |-> r.files, history |-> r.history])
    /\ pc' = "loaded"
    /\ UNCHANGED <<now, report, raw_data, current_clients, stats, write_ok, ticks,
                   aggregation_interval, dt, rounded_time, run_start>>

\* stats = calculate_stats(history)
MainCalculate ==
    /\ pc = "loaded"
    /\ stats' = calculate_stats(history, aggregation_interval, now)
    /\ pc' = "calculated"
    /\ UNCHANGED <<now, store, report, raw_data, current_clients, history, write_ok,
                   ticks, aggregation_interval, dt, rounded_time, run_start, loads>>

\* report_html = generate_html_report(stats); write it to output_html
MainReport ==
    /\ pc = "calculated"
    /\ \E written \in BOOLEAN :
          report' = IF written THEN generate_html_report(stats) ELSE report
    /\ pc' = "done"
    /\ UNCHANGED <<now, store, raw_data, current_clients, history, stats, write_ok,
                   ticks, aggregation_interval, dt, rounded_time, run_start, loads>>

\* the process exits; the scheduler starts the next run
MainExit ==
    /\ pc = "done"
    /\ pc' = "idle"
    /\ raw_data' = NoData
    /\ current_clients' = EmptyMap
    /\ history' = EmptyMap
    /\ stats' = NoStats
    /\ write_ok' = "not_called"
    /\ UNCHANGED <<now, store, report, ticks, aggregation_interval, dt, rounded_time,
                   run_start, loads>>

Next ==
    \/ Tick
    \/ MainFetch
    \/ MainParse
    \/ MainSave
    \/ MainLoad
    \/ MainCalculate
    \/ MainReport
    \/ MainExit

Spec == Init /\ [][Next]_vars

----------------------------------------------------------------------------
(* calculate_stats applied to bounded histories *)

InitStats ==
    /\ now = NowStats
    /\ ticks = 0
    /\ store = EmptyMap
    /\ report = << >>
    /\ pc = "stats_call"
    /\ raw_data = NoData
    /\ current_clients = EmptyMap
    /\ history \in Histories
    /\ stats = NoStats
    /\ write_ok = "not_called"
    /\ aggregation_interval \in DOMAIN INTERVAL_SECONDS
    /\ NotRounding
    /\ run_start = [store |-> store, report |-> report]
    /\ loads = << >>

StatsCall ==
    /\ pc = "stats_call"
    /\ stats' = calculate_stats(history, aggregation_interval, now)
    /\ pc' = "stats_done"
    /\ UNCHANGED <<now, store, report, raw_data, current_clients, history, write_ok,
                   ticks, aggregation_interval, dt, rounded_time, run_start, loads>>

NextStats == StatsCall

SpecStats == InitStats /\ [][NextStats]_vars

----------------------------------------------------------------------------
(* round_time_to_interval applied to bounded instants *)

InitRound ==
    /\ now = Now0
    /\ ticks = 0
    /\ store = EmptyMap
    /\ report = << >>
    /\ pc = "round_call"
    /\ Idle
    /\ aggregation_interval \in DOMAIN INTERVAL_SECONDS
    /\ dt \in DtLow .. DtLow + MaxDtSpan
    /\ rounded_time = 0
    /\ run_start = [store |-> store, report |-> report]
    /\ loads = << >>

RoundCall ==
    /\ pc = "round_call"
    /\ rounded_time' = round_time_to_interval(dt, INTERVAL_SECONDS[aggregation_interval])
    /\ pc' = "round_done"
    /\ UNCHANGED <<now, store, report, raw_data, current_clients, history, stats,
                   write_ok, ticks, aggregation_interval, dt, run_start, loads>>

NextRound == RoundCall

SpecRound == InitRound /\ [][NextRound]_vars

----------------------------------------------------------------------------
(* parse_status applied to bounded status texts *)

InitParse ==
    /\ now = Now0
    /\ ticks = 0
    /\ store = EmptyMap
    /\ report = << >>
    /\ pc = "parse_call"
    /\ raw_data \in {NoData} \cup {Text(ls) : ls \in SeqsUpTo(Lines, MaxLines)}
    /\ current_clients = EmptyMap
    /\ history = EmptyMap
    /\ stats = NoStats
    /\ write_ok = "not_called"
    /\ aggregation_interval = "1h"
    /\ NotRounding
    /\ run_start = [store |-> store, report |-> report]
    /\ loads = << >>

ParseCall ==
    /\ pc = "parse_call"
    /\ current_clients' = parse_status(raw_data, now)
    /\ pc' = "parse_done"
    /\ UNCHANGED <<now, store, report, raw_data, history, stats, write_ok, ticks,
                   aggregation_interval, dt, rounded_time, run_start, loads>>

NextParse == ParseCall

SpecParse == InitParse /\ [][NextParse]_vars

----------------------------------------------------------------------------
(* Properties of calculate_stats (specification SpecStats) *)

Windows == {"h24", "week", "month"}

WindowSeconds(w) ==
    IF w = "h24" THEN 24 * 3600 ELSE IF w = "week" THEN 7 * SecPerDay ELSE 30 * SecPerDay

WindowStats(st, w) ==
    IF w = "h24" THEN st.user_stats_24h
    ELSE IF w = "week" THEN st.user_stats_week
    ELSE st.user_stats_month

\* the key reads as 'YYYY-MM-DD_HH-MM'
Parseable(k) == k.ymd >= 0 /\ k.hh >= 0 /\ k.hh < 24 /\ k.mm >= 0 /\ k.mm < 60

\* the instant a parseable key stands for
InstantOf(k) == (k.ymd * 24 + k.hh) * 3600 + k.mm * 60

\* the snapshots of hist that lie in window w at time t
InWindow(hist, w, t) ==
    {k \in DOMAIN hist : Parseable(k) /\ InstantOf(k) >= t - WindowSeconds(w)}

FieldOr0(r, field) == IF field \in DOMAIN r THEN r[field] ELSE 0

\* sum of user u's field over the snapshots keys of hist
RECURSIVE SumBytes(_, _, _, _)
SumBytes(hist, keys, u, field) ==
    IF keys = {} THEN 0
    ELSE LET k == CHOOSE x \in keys : TRUE
             here == IF u \in DOMAIN hist[k] THEN FieldOr0(hist[k][u], field) ELSE 0
         IN  here + SumBytes(hist, keys \ {k}, u, field)

UsersIn(hist, keys) == UNION {DOMAIN hist[k] : k \in keys}

ZeroTotals == [downloaded |-> 0, uploaded |-> 0, total |-> 0]

\* C1: for each window W in {24h, 7d, 30d} and each user u, u's downloaded
\* (uploaded) total of W is the sum of u's bytes_received (bytes_sent) over
\* exactly the snapshots whose key parses to an instant >= now - W; when
\* every snapshot lies outside all three windows, all per-window totals are 0.
C1_WindowTotals ==
    pc = "stats_done" =>
        /\ \A w \in Windows :
              LET inside == InWindow(history, w, now)
                  m == WindowStats(stats, w)
              IN  /\ DOMAIN m = UsersIn(history, inside)
                  /\ \A u \in DOMAIN m :
                        /\ m[u].downloaded = SumBytes(history, inside, u, "bytes_received")
                        /\ m[u].uploaded = SumBytes(history, inside, u, "bytes_sent")
        /\ (\A w \in Windows : InWindow(history, w, now) = {}) =>
              /\ stats.totals.h24 = ZeroTotals
              /\ stats.totals.week = ZeroTotals
              /\ stats.totals.month = ZeroTotals

\* a history with snapshots inside the 24h window, between 24h and 7d,
\* and outside all windows, has been aggregated
C1_Witness ==
    /\ pc = "stats_done"
    /\ "alice" \in DOMAIN stats.user_stats_24h
    /\ stats.user_stats_24h["alice"].downloaded > 0
    /\ stats.user_stats_week["alice"].downloaded > stats.user_stats_24h["alice"].downloaded
    /\ \E k \in DOMAIN history : Parseable(k) /\ k \notin InWindow(history, "month", now)

\* the bucket of a parseable key at granularity g: same day, time of day
\* floored to a multiple of g seconds
BucketOfKey(k, g) ==
    LET floored == ((k.hh * 3600 + k.mm * 60) \div g) * g
    IN  [ymd |-> k.ymd, hh |-> floored \div 3600, mm |-> (floored % 3600) \div 60]

ParseableKeys(hist) == {k \in DOMAIN hist : Parseable(k)}

\* sum of a field over the records of one snapshot
RECURSIVE SnapshotBytes(_, _, _)
SnapshotBytes(snapshot, users, field) ==
    IF users = {} THEN 0
    ELSE LET u == CHOOSE x \in users : TRUE
         IN  FieldOr0(snapshot[u], field) + SnapshotBytes(snapshot, users \ {u}, field)

\* sum over the snapshots keys of bytes * 8: the sum of their rates in
\* units of 1 / (300 * 1000 * 1000) Mbit/s
RECURSIVE SumRates(_, _, _)
SumRates(hist, keys, field) ==
    IF keys = {} THEN 0
    ELSE LET k == CHOOSE x \in keys : TRUE
         IN  8 * SnapshotBytes(hist[k], DOMAIN hist[k], field)
                 + SumRates(hist, keys \ {k}, field)

\* 300 * 1000 * 1000 / 100: bytes * 8 per hundredth of a Mbit/s
HundredthDen == 300 * 1000 * 10

Abs(x) == IF x < 0 THEN 0 - x ELSE x

\* h hundredths is num / den rounded to a nearest hundredth
IsNearestHundredth(h, num, den) == 2 * Abs(num - h * den) <= den

BucketsOf(hist, g) == {BucketOfKey(k, g) : k \in ParseableKeys(hist)}

SnapshotsOf(hist, g, b) == {k \in ParseableKeys(hist) : BucketOfKey(k, g) = b}

\* the output has exactly one entry per bucket that received a sample, and
\* every snapshot of a bucket contributed one sample to it
OneEntryPerBucket ==
    LET g  == INTERVAL_SECONDS[aggregation_interval]
        hs == stats.hourly_stats
        samples == aggregation_pass(history, aggregation_interval, now).aggregate
    IN  /\ Len(hs) = Cardinality(BucketsOf(history, g))
        /\ {hs[i].time : i \in 1..Len(hs)} = BucketsOf(history, g)
        /\ \A i \in 1..Len(hs) :
              /\ Len(samples[hs[i].time].downloaded)
                    = Cardinality(SnapshotsOf(history, g, hs[i].time))
              /\ Len(samples[hs[i].time].uploaded)
                    = Cardinality(SnapshotsOf(history, g, hs[i].time))

\* C2 (as amended): the rate reported for a bucket is the arithmetic mean
\* (not the sum) of the per-snapshot rates of all parseable-key snapshots of
\* that bucket, rounded to two decimal places; every such snapshot
\* contributes exactly one sample, and the output has exactly one entry per
\* bucket that received a sample and none for any other bucket.
C2_BucketMeanRounded ==
    pc = "stats_done" =>
        /\ OneEntryPerBucket
        /\ \A i \in 1..Len(stats.hourly_stats) :
              LET e  == stats.hourly_stats[i]
                  ks == SnapshotsOf(history, INTERVAL_SECONDS[aggregation_interval], e.time)
                  n  == Cardinality(ks)
              IN  /\ IsNearestHundredth(e.downloaded,
                                        SumRates(history, ks, "bytes_received"),
                                        n * HundredthDen)
                  /\ IsNearestHundredth(e.uploaded,
                                        SumRates(history, ks, "bytes_sent"),
                                        n * HundredthDen)

\* C2 as stated: the reported rate is exactly the arithmetic mean
C2_Original ==
    pc = "stats_done" =>
        /\ OneEntryPerBucket
        /\ \A i \in 1..Len(stats.hourly_stats) :
              LET e  == stats.hourly_stats[i]
                  ks == SnapshotsOf(history, INTERVAL_SECONDS[aggregation_interval], e.time)
                  n  == Cardinality(ks)
              IN  /\ e.downloaded * (n * HundredthDen)
                        = SumRates(history, ks, "bytes_received")
                  /\ e.uploaded * (n * HundredthDen)
                        = SumRates(history, ks, "bytes_sent")

\* a bucket has received the samples of two snapshots with different
\* rates, and another bucket exists
C2_Witness ==
    /\ pc = "stats_done"
    /\ Len(stats.hourly_stats) >= 2
    /\ \E i \in 1..Len(stats.hourly_stats) :
          LET e  == stats.hourly_stats[i]
              ks == SnapshotsOf(history, INTERVAL_SECONDS[aggregation_interval], e.time)
          IN  /\ Cardinality(ks) = 2
              /\ \E k1, k2 \in ks :
                    SumRates(history, {k1}, "bytes_received")
                        # SumRates(history, {k2}, "bytes_received")
              /\ e.downloaded > 0

\* C4: a snapshot whose key cannot be parsed as 'YYYY-MM-DD_HH-MM' is
\* excluded from every aggregate (user set, window totals, bucket samples),
\* and the aggregates equal those of the history without that snapshot.
C4_UnparseableKeyExcluded ==
    pc = "stats_done" =>
        /\ stats.all_users = UsersIn(history, ParseableKeys(history))
        /\ \A k \in DOMAIN history :
              ~Parseable(k) =>
                  stats = calculate_stats(Restrict(history, DOMAIN history \ {k}),
                                          aggregation_interval, now)

\* the history holds a snapshot with an unparseable key whose user occurs
\* in no other snapshot, next to a parseable snapshot that was counted
C4_Witness ==
    /\ pc = "stats_done"
    /\ \E k \in DOMAIN history :
          /\ ~Parseable(k)
          /\ "bob" \in DOMAIN history[k]
    /\ "bob" \notin stats.all_users
    /\ "alice" \in stats.all_users
    /\ stats.totals.h24.total > 0

\* a record lacks 'bytes_received' or 'bytes_sent'
Incomplete(r) == "bytes_received" \notin DOMAIN r \/ "bytes_sent" \notin DOMAIN r

\* the history without its incomplete records
DropIncomplete(hist) ==
    [k \in DOMAIN hist |->
        Restrict(hist[k], {u \in DOMAIN hist[k] : ~Incomplete(hist[k][u])})]

\* the history with 0 for each missing byte field
FillZero(hist) ==
    [k \in DOMAIN hist |->
        [u \in DOMAIN hist[k] |->
            [f \in DOMAIN hist[k][u] \cup {"bytes_received", "bytes_sent"} |->
                FieldOr0(hist[k][u], f)]]]

IncompleteUsers(hist) ==
    {u \in UsersIn(hist, ParseableKeys(hist)) :
        \E k \in ParseableKeys(hist) : u \in DOMAIN hist[k] /\ Incomplete(hist[k][u])}

\* C5 (as amended): a client record that lacks bytes_received or bytes_sent
\* is not skipped: the missing field counts as 0, the user is added to the
\* user set, and the field that is present is added to the window totals
\* and to the snapshot's rate sample; the other records of the snapshot are
\* counted as usual.
C5_MissingFieldCountsZero ==
    pc = "stats_done" =>
        /\ stats = calculate_stats(FillZero(history), aggregation_interval, now)
        /\ IncompleteUsers(history) \subseteq stats.all_users
        /\ \A u \in IncompleteUsers(history) :
              u \in DOMAIN stats.user_stats_month =>
                  stats.user_stats_month[u].uploaded
                      = SumBytes(history, InWindow(history, "month", now), u, "bytes_sent")

\* C5 as stated: the incomplete record is skipped as a single record
C5_Original ==
    pc = "stats_done" =>
        stats = calculate_stats(DropIncomplete(history), aggregation_interval, now)

\* a snapshot in the 24h window holds an incomplete record of bob, who
\* occurs in no other snapshot, beside a complete record of alice
C5_Witness ==
    /\ pc = "stats_done"
    /\ Cardinality(DOMAIN history) = 1
    /\ \E k \in InWindow(history, "h24", now) :
          /\ DOMAIN history[k] = {"alice", "bob"}
          /\ Incomplete(history[k]["bob"])
          /\ ~Incomplete(history[k]["alice"])
    /\ "bob" \in stats.all_users
    /\ stats.user_stats_24h["bob"].uploaded > 0
    /\ stats.user_stats_24h["alice"].downloaded > 0

\* every byte counter of the history is a non-negative integer
NonNegative(hist) ==
    \A k \in DOMAIN hist : \A u \in DOMAIN hist[k] :
        /\ FieldOr0(hist[k][u], "bytes_received") >= 0
        /\ FieldOr0(hist[k][u], "bytes_sent") >= 0

\* every user of the map inner is in the map outer with totals at least as large
NestedIn(inner, outer) ==
    /\ DOMAIN inner \subseteq DOMAIN outer
    /\ \A u \in DOMAIN inner :
          /\ inner[u].downloaded <= outer[u].downloaded
          /\ inner[u].uploaded <= outer[u].uploaded

\* C11: the rolling windows are nested: for a history with non-negative
\* byte counters and every user u, u's 24h downloaded total <= u's 7d total
\* <= u's 30d total, likewise for uploaded; every user of the 24h map is in
\* the 7d map, every user of the 7d map is in the 30d map, and every user
\* of a window map is in all_users.
C11_WindowsNested ==
    (pc = "stats_done" /\ NonNegative(history)) =>
        /\ NestedIn(stats.user_stats_24h, stats.user_stats_week)
        /\ NestedIn(stats.user_stats_week, stats.user_stats_month)
        /\ DOMAIN stats.user_stats_24h \subseteq stats.all_users
        /\ DOMAIN stats.user_stats_week \subseteq stats.all_users
        /\ DOMAIN stats.user_stats_month \subseteq stats.all_users

\* alice has snapshots in the 24h window, between 24h and 7d, and between
\* 7d and 30d, so her three totals grow strictly; bob occurs only in the
\* 30d window
C11_Witness ==
    /\ pc = "stats_done"
    /\ NonNegative(history)
    /\ "alice" \in DOMAIN stats.user_stats_24h
    /\ stats.user_stats_24h["alice"].downloaded > 0
    /\ stats.user_stats_24h["alice"].downloaded < stats.user_stats_week["alice"].downloaded
    /\ stats.user_stats_week["alice"].downloaded < stats.user_stats_month["alice"].downloaded
    /\ stats.user_stats_24h["alice"].uploaded < stats.user_stats_week["alice"].uploaded
    /\ "bob" \in DOMAIN stats.user_stats_month
    /\ "bob" \notin DOMAIN stats.user_stats_week

----------------------------------------------------------------------------
(* Properties of round_time_to_interval (specification SpecRound) *)

ProbeOffsets ==
    {0 - SecPerDay, 0 - 3600, 0 - 1800, 0 - 600, 0 - 60, 0 - 1,
     1, 60, 600, 1800, 3600, SecPerDay}

DayOf(t) == t \div SecPerDay

SecondOfDay(t) == t % SecPerDay

\* C3: for every instant t and granularity g in {600, 1800, 3600},
\* round_time_to_interval(t, g) is the instant b on the same calendar day
\* as t whose seconds-since-midnight is a multiple of g with b <= t < b + g;
\* two instants get the same bucket key exactly when they lie in the same
\* g-wide interval of the same day.
C3_BucketFloor ==
    pc = "round_done" =>
        LET g == INTERVAL_SECONDS[aggregation_interval]
            b == rounded_time
        IN  /\ g \in {600, 1800, 3600}
            /\ DayOf(b) = DayOf(dt)
            /\ SecondOfDay(b) % g = 0
            /\ b <= dt
            /\ dt < b + g
            /\ \A off \in ProbeOffsets :
                  LET t2 == dt + off
                  IN  t2 >= 0 =>
                        ((bucket_key(round_time_to_interval(t2, g)) = bucket_key(b))
                            <=> (/\ DayOf(t2) = DayOf(dt)
                                 /\ SecondOfDay(t2) \div g = SecondOfDay(dt) \div g))

\* an instant in the second half of an hour, not on a minute boundary, has
\* been rounded down to the hour
C3_Witness ==
    /\ pc = "round_done"
    /\ aggregation_interval = "1h"
    /\ dt % 60 # 0
    /\ dt - rounded_time > 1800
    /\ DayOf(dt) = 1

----------------------------------------------------------------------------
(* Properties of parse_status (specification SpecParse) *)

NumericTokens == {"0", "1000000", "4500000", "7500000"}

\* the line begins with 'CLIENT_LIST'
TaggedLine(parts) == parts[1] = "CLIENT_LIST" \/ parts[1] = "CLIENT_LIST_EXTRA"

\* the line has the fields of indices 1, 2, 5, 6, 7 and numeric byte fields
WellFormed(parts) ==
    /\ Len(parts) >= 8
    /\ parts[6] \in NumericTokens
    /\ parts[7] \in NumericTokens

GoodLines(ls) == {i \in 1..Len(ls) : TaggedLine(ls[i]) /\ WellFormed(ls[i])}

LastGood(ls, name) ==
    CHOOSE i \in GoodLines(ls) :
        /\ ls[i][2] = name
        /\ \A j \in GoodLines(ls) : ls[j][2] = name => j <= i

\* C10: parse_status returns the mapping given by the lines that begin with
\* 'CLIENT_LIST', without those that lack a required field or have a
\* non-numeric byte field, a later well-formed line overwriting an earlier
\* one of the same client; a malformed line neither aborts the batch nor
\* changes the entry of an earlier well-formed line.
C10_ParseStatus ==
    pc = "parse_done" =>
        LET ls == raw_data.lines
        IN  /\ DOMAIN current_clients = {ls[i][2] : i \in GoodLines(ls)}
            /\ \A name \in DOMAIN current_clients :
                  LET parts == ls[LastGood(ls, name)]
                      r == current_clients[name]
                  IN  /\ r.real_address = parts[3]
                      /\ r.bytes_received = IntValue[parts[6]]
                      /\ r.bytes_sent = IntValue[parts[7]]
                      /\ r.connected_since = parts[8]

\* a well-formed line of alice is followed by a malformed line of alice and
\* by a well-formed line of bob: both clients are in the result
C10_Witness ==
    /\ pc = "parse_done"
    /\ Len(raw_data.lines) = 3
    /\ raw_data.lines[1] = LineAlice1
    /\ raw_data.lines[2] \in {LineShort, LineBadInt}
    /\ raw_data.lines[3] = LineBob
    /\ DOMAIN current_clients = {"alice", "bob"}
    /\ current_clients["alice"].bytes_received = 4500000

----------------------------------------------------------------------------
(* Properties of main (specification Spec) *)

\* get_openvpn_status returned None or empty data
FetchFailed == raw_data.is_none \/ Len(raw_data.lines) = 0

\* C6: in a run of main whose fetch fails, the run stops before every later
\* step: no snapshot is written, none is deleted by pruning and the report
\* is not regenerated; store and report are as they were before the run.
C6_FailedFetchChangesNothing ==
    (pc = "done" /\ FetchFailed) =>
        /\ store = run_start.store
        /\ report = run_start.report
        /\ current_clients = EmptyMap
        /\ write_ok = "not_called"

\* the date segment of k reads as a date that lies before t - 30 * R days
Expired(k, t) == k.ymd >= 0 /\ k.ymd * SecPerDay < t - 30 * months_to_keep * SecPerDay

\* a run with a failed fetch has ended while the store holds a file that
\* pruning would delete and a previous report exists
C6_Witness ==
    /\ pc = "done"
    /\ FetchFailed
    /\ \E k \in DOMAIN store : Expired(k, now)
    /\ report # << >>

MidnightIn(t1, t2) ==
    \E d \in DayOf(t1)..DayOf(t2) : t1 <= d * SecPerDay /\ d * SecPerDay < t2

SecondLoadSame ==
    /\ loads[2].history = loads[1].history
    /\ DOMAIN loads[2].after = DOMAIN loads[2].before

PersistStep == pc = "parsed" /\ pc' = "saved"

SnapshotStored ==
    /\ StemOf(now) \in DOMAIN store'
    /\ store'[StemOf(now)].kind = "dict"
    /\ store'[StemOf(now)].data = current_clients
    /\ \A k \in DOMAIN store \ {StemOf(now)} : k \in DOMAIN store' /\ store'[k] = store[k]
    /\ DOMAIN store' = DOMAIN store \cup {StemOf(now)}

\* C9 (as amended): every run of main whose fetch succeeds, whose parsed
\* client mapping is not empty and whose write does not fail creates one
\* snapshot entry: after the persist step the store holds, under the key of
\* the current minute, the client mapping parsed in that run, replacing any
\* entry stored under that key; a run that parsed no client writes nothing.
C9_SnapshotPerNonEmptyPoll ==
    [][PersistStep =>
          /\ (current_clients # EmptyMap /\ write_ok' # "failed") => SnapshotStored
          /\ current_clients = EmptyMap => store' = store]_vars

\* C9 as stated: for every successful poll, whatever the number of clients
C9_Original == [][(PersistStep /\ write_ok' # "failed") => SnapshotStored]_vars

\* a run has replaced the snapshot that an earlier run of the same minute
\* had stored under the same key with other clients
C9_Witness ==
    /\ pc = "saved"
    /\ write_ok = "written"
    /\ StemOf(now) \in DOMAIN run_start.store
    /\ StemOf(now) \in DOMAIN store
    /\ store[StemOf(now)] # run_start.store[StemOf(now)]
    /\ store[StemOf(now)] = DictFile(current_clients)

====
